---- MODULE Spec2Model ----
(***************************************************************************)
(* A model of webtorrent-runner.js: the bootstrap (descriptor validation,  *)
(* scratch directory, swarm client, HTTP range server, player launch) and  *)
(* the shutdown routine with its four callers, as the event loop runs      *)
(* them: every action is one callback or one continuation of an async      *)
(* function, from the point where it is scheduled to its next await.       *)
(* Strings the code inspects are sequences of one-character strings.       *)
(***************************************************************************)
EXTENDS Integers, Sequences, FiniteSets, TLC

(* ------------------------------ bounds --------------------------------- *)
\* Largest Target File length, in bytes, the model draws.
MaxLen == 11
\* Calls of shutdown() the model follows (the code has no limit).
MaxRuns == 2
\* HTTP exchanges open at the same time.
MaxConns == 1
\* exchanges open at a time while the interleaving of reads is followed
MaxReaders == 2
\* length, in bytes, of the file those exchanges read
ReadLen == 3

(* ------------------------------ strings -------------------------------- *)
DigitChars == <<"0", "1", "2", "3", "4", "5", "6", "7", "8", "9">>

IsDigit(c) == \E i \in 1..10 : DigitChars[i] = c

DigitVal(c) == (CHOOSE i \in 1..10 : DigitChars[i] = c) - 1

\* String.prototype.startsWith
StartsWith(s, p) == Len(s) >= Len(p) /\ SubSeq(s, 1, Len(p)) = p

\* a regular expression anchored with $ matches a suffix
EndsWith(s, p) == Len(s) >= Len(p) /\ SubSeq(s, Len(s) - Len(p) + 1, Len(s)) = p

\* the /i flag of the extension pattern: compare case-insensitively
LowerChar(c) ==
  CASE c = "M" -> "m" [] c = "P" -> "p" [] c = "K" -> "k" [] c = "V" -> "v"
    [] c = "A" -> "a" [] c = "I" -> "i" [] c = "W" -> "w" [] c = "E" -> "e"
    [] c = "B" -> "b" [] OTHER -> c

Lower(s) == [i \in 1..Len(s) |-> LowerChar(s[i])]

(* --------------------------- JavaScript numbers ------------------------ *)
\* A JavaScript number as the range code uses it: an integer or NaN.
Num(n) == [nan |-> FALSE, v |-> n]

NaN == [nan |-> TRUE, v |-> 0]

JsAdd(a, b) == IF a.nan \/ b.nan THEN NaN ELSE Num(a.v + b.v)

JsSub(a, b) == IF a.nan \/ b.nan THEN NaN ELSE Num(a.v - b.v)

RECURSIVE DigitsOf(_)
DigitsOf(n) ==
  IF n < 10 THEN <<DigitChars[n + 1]>>
  ELSE DigitsOf(n \div 10) \o <<DigitChars[(n % 10) + 1]>>

\* number -> string, as a template literal formats it
ToStr(x) ==
  IF x.nan THEN <<"N", "a", "N">>
  ELSE IF x.v < 0 THEN <<"-">> \o DigitsOf(0 - x.v)
  ELSE DigitsOf(x.v)

RECURSIVE SkipSpaces(_)
SkipSpaces(s) ==
  IF s # <<>> /\ Head(s) = " " THEN SkipSpaces(Tail(s)) ELSE s

RECURSIVE ReadDigits(_, _, _)
\* the longest prefix of decimal digits of s: <<value, number of digits>>
ReadDigits(s, acc, k) ==
  IF s # <<>> /\ IsDigit(Head(s))
  THEN ReadDigits(Tail(s), acc * 10 + DigitVal(Head(s)), k + 1)
  ELSE <<acc, k>>

\* parseInt(s, 10): leading blanks, an optional sign, then digits; NaN when
\* no digit follows.
ParseInt(s) ==
  LET t    == SkipSpaces(s)
      neg  == t # <<>> /\ Head(t) = "-"
      sgn  == t # <<>> /\ Head(t) \in {"-", "+"}
      body == IF sgn THEN Tail(t) ELSE t
      r    == ReadDigits(body, 0, 0)
  IN  IF r[2] = 0 THEN NaN
      ELSE Num(IF neg THEN 0 - r[1] ELSE r[1])

(* --------------------------- the descriptor ---------------------------- *)
MagnetPrefix == <<"m", "a", "g", "n", "e", "t", ":", "?">>

\* the command line's positional argument
Descriptors ==
  { MagnetPrefix \o <<"x">>,
    <<"n", "o", "t", "-", "a">>,
    <<"m", "a", "g", "n", "e", "t", ":">>,
    <<"x">> \o MagnetPrefix,
    <<>> }

\* a faulty variant of the check below: the '?' of the prefix is not required
MagnetAcceptedLoose(m) == StartsWith(m, <<"m", "a", "g", "n", "e", "t", ":">>)

\* if (!magnet.startsWith('magnet:?')) ... process.exit(1)
MagnetAccepted(m) == StartsWith(m, MagnetPrefix)

(* --------------------------- the swarm's files ------------------------- *)
VideoExts ==
  { <<"m", "p", "4">>, <<"m", "k", "v">>, <<"a", "v", "i">>,
    <<"w", "e", "b", "m">>, <<"m", "4", "v">> }

\* /\.(mp4|mkv|avi|webm|m4v)$/i.test(name)
IsVideoName(name) ==
  \E e \in VideoExts : EndsWith(Lower(name), <<".">> \o e)

File(name, length) == [name |-> name, length |-> length]

NoFile == [found |-> FALSE, name |-> <<>>, length |-> 0]

RECURSIVE FindVideo(_)
\* t.files.find(...): the first member whose name matches, or undefined
FindVideo(files) ==
  IF files = <<>> THEN NoFile
  ELSE IF IsVideoName(Head(files).name)
       THEN [found |-> TRUE, name |-> Head(files).name, length |-> Head(files).length]
       ELSE FindVideo(Tail(files))

\* the member lists a joined swarm may report
Torrents ==
  { <<File(<<"r", ".", "t", "x", "t">>, 1), File(<<"A", ".", "M", "k", "v">>, MaxLen),
      File(<<"b", ".", "a", "v", "i">>, 2)>>,
    <<File(<<"r", ".", "t", "x", "t">>, 1)>>,
    <<File(<<"m", "p", "4">>, 2), File(<<"a", ".", "m", "p", "4", "x">>, 3)>>,
    <<>> }

\* further member lists, for the runs that exercise the request handler
MoreTorrents ==
  { <<File(<<"a", ".", "m", "p", "4">>, 2)>>,
    <<File(<<"r", ".", "t", "x", "t">>, 1), File(<<"c", ".", "w", "e", "b", "m">>, 0)>> }

(* --------------------------- the Range header -------------------------- *)
BytesEq == <<"b", "y", "t", "e", "s", "=">>

RECURSIVE IndexFrom(_, _, _)
\* the first index >= i at which p occurs in s, or 0
IndexFrom(s, p, i) ==
  IF i + Len(p) - 1 > Len(s) THEN 0
  ELSE IF SubSeq(s, i, i + Len(p) - 1) = p THEN i
  ELSE IndexFrom(s, p, i + 1)

\* s.replace(/p/, ''): the first occurrence of p, wherever it is, removed
RemoveFirst(s, p) ==
  LET i == IndexFrom(s, p, 1)
  IN  IF i = 0 THEN s ELSE SubSeq(s, 1, i - 1) \o SubSeq(s, i + Len(p), Len(s))

RECURSIVE Split(_, _)
\* s.split(c): the fields between the occurrences of c (always at least one)
Split(s, c) ==
  LET i == IndexFrom(s, <<c>>, 1)
  IN  IF i = 0 THEN <<s>>
      ELSE <<SubSeq(s, 1, i - 1)>> \o Split(SubSeq(s, i + 1, Len(s)), c)

\* const [startStr, endStr] = range.replace(/bytes=/, '').split('-')
RangeFields(range) == Split(RemoveFirst(range, BytesEq), "-")

\* parseInt(startStr, 10)
RangeStart(range) == ParseInt(RangeFields(range)[1])

\* endStr ? parseInt(endStr, 10) : size - 1   (undefined and '' are falsy)
RangeEnd(range, size) ==
  LET f == RangeFields(range)
  IN  IF Len(f) >= 2 /\ f[2] # <<>> THEN ParseInt(f[2]) ELSE Num(size - 1)

\* a faulty variant of the length below: the last byte is not counted
ChunkSizeExclusive(start, end) == JsSub(end, start)

\* end - start + 1
ChunkSize(start, end) == JsAdd(JsSub(end, start), Num(1))

\* `bytes ${start}-${end}/${size}`
ContentRange(start, end, size) ==
  <<"b", "y", "t", "e", "s", " ">> \o ToStr(start) \o <<"-">> \o ToStr(end)
    \o <<"/">> \o ToStr(Num(size))

(* --------------------------- the request handler ----------------------- *)
NoHeader == [present |-> FALSE, value |-> <<>>]

Header(v) == [present |-> TRUE, value |-> v]

Request(method, range) == [method |-> method, range |-> range]

NoRead == [kind |-> "none", start |-> NaN, end |-> NaN]

\* video.createReadStream()
FullRead == [kind |-> "full", start |-> NaN, end |-> NaN]

\* video.createReadStream({ start, end })
RangeRead(start, end) == [kind |-> "range", start |-> start, end |-> end]

\* a faulty variant of the method check below: HEAD is let through with GET
MethodAllowedWithHead(method) == method \in {"GET", "HEAD"}

\* if (req.method !== 'GET') return res.writeHead(405).end()
MethodAllowed(method) == method = "GET"

\* if (!range): the header is absent or the empty string
RangeMissing(range) == ~range.present \/ range.value = <<>>

Response405 ==
  [status |-> 405, acceptRanges |-> FALSE, hasLength |-> FALSE,
   contentLength |-> NaN, contentRange |-> <<>>, read |-> NoRead]

\* a faulty variant of the full response below: no Content-Length is sent
Response200NoLength(size) ==
  [status |-> 200, acceptRanges |-> TRUE, hasLength |-> FALSE,
   contentLength |-> NaN, contentRange |-> <<>>, read |-> FullRead]

\* res.writeHead(200, { 'Content-Length': size }); video.createReadStream()
Response200(size) ==
  [status |-> 200, acceptRanges |-> TRUE, hasLength |-> TRUE,
   contentLength |-> Num(size), contentRange |-> <<>>, read |-> FullRead]

Response206(range, size) ==
  LET start == RangeStart(range)
      end   == RangeEnd(range, size)
  IN  [status |-> 206, acceptRanges |-> TRUE, hasLength |-> TRUE,
       contentLength |-> ChunkSize(start, end),
       contentRange |-> ContentRange(start, end, size),
       read |-> RangeRead(start, end)]

\* the callback given to http.createServer, for a Target File of `size` bytes
Respond(req, size) ==
  IF ~MethodAllowed(req.method) THEN Response405
  ELSE IF RangeMissing(req.range) THEN Response200(size)
  ELSE Response206(req.range.value, size)

(* --------------------------- the requests a client sends --------------- *)
\* bytes=<start>-<end>
ClosedRange(s, e) == BytesEq \o DigitsOf(s) \o <<"-">> \o DigitsOf(e)

\* bytes=<start>-
OpenRange(s) == BytesEq \o DigitsOf(s) \o <<"-">>

\* the offsets the modelled clients put in a Range header
Offsets == {0, 1, MaxLen - 1, MaxLen}

OtherRanges ==
  { BytesEq \o <<"-", "5">>,
    BytesEq \o <<"a", "b", "c">>,
    BytesEq,
    <<"0", "-", "1">>,
    BytesEq \o <<" ", "0", "1", "-", "0", "1">> }

RangeValues ==
  {ClosedRange(s, e) : s \in Offsets, e \in Offsets}
    \cup {OpenRange(s) : s \in Offsets} \cup OtherRanges

\* the stream errors met while following the whole life of the process, or
\* every request: the reader going away in the middle of a read (a seek)
SampleErrors == {TRUE}

\* the request of the runs that follow the whole life of the process: the
\* player asking for the whole file
SampleRequests ==
  { Request("GET", NoHeader) }

Requests ==
  {Request("GET", NoHeader), Request("GET", Header(<<>>))}
    \cup {Request("GET", Header(v)) : v \in RangeValues}
    \cup {Request(m, h) : m \in {"POST", "HEAD"},
                          h \in {NoHeader, Header(ClosedRange(0, 1))}}

(* ------------------------------- state --------------------------------- *)
VARIABLES
  magnet,             \* argv._[0]
  downloaded,         \* torrent.downloaded, in bytes of the video file
  last,               \* `last` of the progress timer
  pc,                 \* how far the bootstrap has come
  dirExists,          \* the scratch directory `downloads` exists
  dirEntries,         \* its entries
  mkdirCalls,         \* calls of fs.mkdir
  client,             \* the global `client`: "undefined" or "constructed"
  destroyCalls,       \* calls of client.destroy
  destroyReported,    \* a callback of client.destroy has run
  video,              \* the result of t.files.find
  server,             \* the global `server` and its listening socket
  closeCalls,         \* calls of server.close
  conns,              \* the HTTP exchanges in progress
  launchCount,        \* calls of launchPlayer
  player,             \* the global `playerProc`
  playerCode,         \* the code its 'exit' event reported
  browser,            \* the browser fallback was spawned
  progressInterval,   \* the progress timer is armed
  streamErrorLogged,  \* the global of that name
  streamLines,        \* lines logStreamError has printed, by kind of error
  silenced,           \* kinds of error logStreamError has let pass unprinted
  runs,               \* the calls of shutdown(), in order, each at its await
  exited              \* the process has ended: status and the exit taken

vars ==
  <<magnet, downloaded, last, pc, dirExists, dirEntries, mkdirCalls, client,
    destroyCalls, destroyReported, video, server, closeCalls, conns,
    launchCount, player, playerCode, browser, progressInterval,
    streamErrorLogged, streamLines, silenced, runs, exited>>

Entries == {"old", "data"}

ExitCodes == {0, 3}

ConnIds == 1..MaxConns

Alive == ~exited.done

Init ==
  /\ magnet \in Descriptors
  /\ downloaded = 0
  /\ last = 0
  /\ pc = "start"
  /\ dirExists \in BOOLEAN
  /\ dirEntries \in (IF dirExists THEN {{}, {"old"}} ELSE {{}})
  /\ mkdirCalls = 0
  /\ client = "undefined"
  /\ destroyCalls = 0
  /\ destroyReported = FALSE
  /\ video = NoFile
  /\ server = "undefined"
  /\ closeCalls = 0
  /\ conns = {}
  /\ launchCount = 0
  /\ player = "undefined"
  /\ playerCode = 0
  /\ browser = FALSE
  /\ progressInterval = FALSE
  /\ streamErrorLogged = FALSE
  /\ streamLines = [premature |-> 0, other |-> 0]
  /\ silenced = {}
  /\ runs = <<>>
  /\ exited = [done |-> FALSE, status |-> 0, via |-> "none"]

\* process.exit(status), or the end of the process by an uncaught exception
ProcessExit(status, via) ==
  exited' = [done |-> TRUE, status |-> status, via |-> via]

(* ------------------------------ shutdown ------------------------------- *)
Run(p, code, trigger) ==
  [pc |-> p, code |-> code, trigger |-> trigger, pending |-> {}]

\* a faulty variant of the step below: the directory is listed without
\* waiting for the grace period after client.destroy
AfterServerStepNoGrace(rs, i) == [rs EXCEPT ![i].pc = "readdir"]

\* if (client) { client.destroy(...); await 500 ms }, then fs.readdir:
\* where run i of rs waits next, once the server step is behind it
AfterServerStep(rs, i) ==
  [rs EXCEPT ![i].pc = IF client = "constructed" THEN "grace" ELSE "readdir"]

RECURSIVE ResumeAll(_, _)
\* every run of rs waiting on server.close resumes when 'close' is emitted
ResumeAll(rs, i) ==
  IF i > Len(rs) THEN rs
  ELSE ResumeAll(IF rs[i].pc = "close" THEN AfterServerStep(rs, i) ELSE rs, i + 1)

WaitingOnClose(rs) == {i \in 1..Len(rs) : rs[i].pc = "close"}

\* the calls of client.destroy made when the runs of rs waiting on 'close'
\* resume
DestroysOnResume(rs) ==
  IF client = "constructed" THEN Cardinality(WaitingOnClose(rs)) ELSE 0

\* a faulty variant of shutdown below: with no server to close it goes
\* straight to the directory and leaves the swarm client alone
ShutdownCallNoDestroy(code, trigger) ==
  /\ Len(runs) < MaxRuns
  /\ progressInterval' = FALSE
  /\ IF server # "undefined"
       THEN LET rs == Append(runs, Run("close", code, trigger))
            IN  /\ closeCalls' = closeCalls + 1
                /\ IF conns = {}
                     THEN /\ server' = IF server = "binding" THEN server ELSE "closed"
                          /\ runs' = ResumeAll(rs, 1)
                          /\ destroyCalls' = destroyCalls + DestroysOnResume(rs)
                     ELSE /\ server' = "closing"
                          /\ runs' = rs
                          /\ UNCHANGED destroyCalls
       ELSE /\ runs' = Append(runs, Run("readdir", code, trigger))
            /\ UNCHANGED <<closeCalls, server, destroyCalls>>

\* shutdown(exitCode) from its first line to its first await. server.close
\* releases the socket at once; its callback waits for the 'close' event,
\* which the server emits on the next tick when no connection is open (also
\* when it is not bound yet, or already closed) and otherwise only once the
\* last connection has ended.
ShutdownCall(code, trigger) ==
  /\ Len(runs) < MaxRuns
  /\ progressInterval' = FALSE
  /\ IF server # "undefined"
       THEN LET rs == Append(runs, Run("close", code, trigger))
            IN  /\ closeCalls' = closeCalls + 1
                /\ IF conns = {}
                     THEN /\ server' = IF server = "binding" THEN server ELSE "closed"
                          /\ runs' = ResumeAll(rs, 1)
                          /\ destroyCalls' = destroyCalls + DestroysOnResume(rs)
                     ELSE /\ server' = "closing"
                          /\ runs' = rs
                          /\ UNCHANGED destroyCalls
       ELSE /\ runs' = AfterServerStep(Append(runs, Run("close", code, trigger)),
                                       Len(runs) + 1)
            /\ destroyCalls' = IF client = "constructed"
                                 THEN destroyCalls + 1 ELSE destroyCalls
            /\ UNCHANGED <<closeCalls, server>>

\* the callers' frame: what a call of shutdown leaves alone
ShutdownFrame ==
  UNCHANGED <<magnet, downloaded, last, dirExists, dirEntries, mkdirCalls,
              client, conns, launchCount, browser, streamErrorLogged,
              streamLines, silenced, destroyReported>>

\* the server's 'close' event after its last connection has ended:
\* `await new Promise(r => server.close(r))` resumes in every waiting run
ServerClosed ==
  /\ Alive
  /\ WaitingOnClose(runs) # {}
  /\ server = "closing"
  /\ conns = {}
  /\ server' = "closed"
  /\ runs' = ResumeAll(runs, 1)
  /\ destroyCalls' = destroyCalls + DestroysOnResume(runs)
  /\ UNCHANGED <<destroyReported, magnet, downloaded, last, pc, dirExists,
                 dirEntries, mkdirCalls, client, video, closeCalls, conns,
                 launchCount, player, playerCode, browser, progressInterval,
                 streamErrorLogged, streamLines, silenced, exited>>

\* the 500 ms timer of run i fires (timers of one delay fire in the order
\* they were set); fs.readdir is issued
GraceOver(i) ==
  /\ Alive
  /\ runs[i].pc = "grace"
  /\ \A j \in 1..(i - 1) : runs[j].pc # "grace"
  /\ runs' = [runs EXCEPT ![i].pc = "readdir"]
  /\ UNCHANGED <<magnet, downloaded, last, pc, dirExists, dirEntries,
                 mkdirCalls, client, destroyCalls, destroyReported, video,
                 server, closeCalls, conns, launchCount, player, playerCode,
                 browser, progressInterval, streamErrorLogged, streamLines,
                 silenced, exited>>

\* the callback of a client.destroy call runs: with an error or without, it
\* writes one line and touches nothing else (the first such callback is
\* followed; the callbacks of later calls do the same)
DestroyReported(ok) ==
  /\ Alive
  /\ destroyCalls > 0
  /\ ~destroyReported
  /\ destroyReported' = TRUE
  /\ UNCHANGED <<magnet, downloaded, last, pc, dirExists, dirEntries,
                 mkdirCalls, client, destroyCalls, video, server, closeCalls,
                 conns, launchCount, player, playerCode, browser,
                 progressInterval, streamErrorLogged, streamLines, silenced,
                 runs, exited>>

\* fs.readdir of run i returns: ENOENT or no entry ends the run with
\* process.exit(exitCode); otherwise one fs.rm per entry is issued
ReaddirDone(i) ==
  /\ Alive
  /\ runs[i].pc = "readdir"
  /\ IF dirExists /\ dirEntries # {}
       THEN /\ runs' = [runs EXCEPT ![i].pc = "rm", ![i].pending = dirEntries]
            /\ UNCHANGED exited
       ELSE /\ ProcessExit(runs[i].code, "shutdown")
            /\ UNCHANGED runs
  /\ UNCHANGED <<magnet, downloaded, last, pc, dirExists, dirEntries,
                 mkdirCalls, client, destroyCalls, destroyReported, video,
                 server, closeCalls, conns, launchCount, player, playerCode,
                 browser, progressInterval, streamErrorLogged, streamLines,
                 silenced>>

\* a faulty variant of the step below: the rejection of fs.rm is not caught
\* and ends the process as an unhandled rejection
RmDoneUnhandled(i, e, ok) ==
  /\ Alive
  /\ runs[i].pc = "rm"
  /\ e \in runs[i].pending
  /\ dirEntries' = IF ok THEN dirEntries \ {e} ELSE dirEntries
  /\ runs' = [runs EXCEPT ![i].pending = @ \ {e}]
  /\ IF ~ok THEN ProcessExit(1, "uncaught")
     ELSE IF runs[i].pending = {e} THEN ProcessExit(runs[i].code, "shutdown")
     ELSE UNCHANGED exited
  /\ UNCHANGED <<magnet, downloaded, last, pc, dirExists, mkdirCalls, client,
                 destroyCalls, destroyReported, video, server, closeCalls,
                 conns, launchCount, player, playerCode, browser,
                 progressInterval, streamErrorLogged, streamLines, silenced>>

\* one fs.rm of run i settles. A rejection rejects Promise.all at once: the
\* catch logs it and the run exits; the last fulfilment ends the run too.
RmDone(i, e, ok) ==
  /\ Alive
  /\ runs[i].pc = "rm"
  /\ e \in runs[i].pending
  /\ dirEntries' = IF ok THEN dirEntries \ {e} ELSE dirEntries
  /\ runs' = [runs EXCEPT ![i].pending = @ \ {e}]
  /\ IF ~ok \/ runs[i].pending = {e}
       THEN ProcessExit(runs[i].code, "shutdown")
       ELSE UNCHANGED exited
  /\ UNCHANGED <<magnet, downloaded, last, pc, dirExists, mkdirCalls, client,
                 destroyCalls, destroyReported, video, server, closeCalls,
                 conns, launchCount, player, playerCode, browser,
                 progressInterval, streamErrorLogged, streamLines, silenced>>

(* ------------------------------ bootstrap ------------------------------ *)
\* the module body: the descriptor check, then the async bootstrap up to
\* `await fs.mkdir`, then process.on('SIGINT')
Validate ==
  /\ Alive
  /\ pc = "start"
  /\ IF MagnetAccepted(magnet)
       THEN /\ pc' = "mkdir"
            /\ mkdirCalls' = mkdirCalls + 1
            /\ UNCHANGED exited
       ELSE /\ ProcessExit(1, "invalid")
            /\ UNCHANGED <<pc, mkdirCalls>>
  /\ UNCHANGED <<magnet, downloaded, last, dirExists, dirEntries, client,
                 destroyCalls, destroyReported, video, server, closeCalls,
                 conns, launchCount, player, playerCode, browser,
                 progressInterval, streamErrorLogged, streamLines, silenced,
                 runs>>

\* fs.mkdir settles (a rejection is swallowed); new WebTorrent, client.on,
\* client.add
MkdirDone(ok) ==
  /\ Alive
  /\ pc = "mkdir"
  /\ dirExists' = (dirExists \/ ok)
  /\ client' = "constructed"
  /\ pc' = "connecting"
  /\ UNCHANGED <<magnet, downloaded, last, dirEntries, mkdirCalls,
                 destroyCalls, destroyReported, video, server, closeCalls,
                 conns, launchCount, player, playerCode, browser,
                 progressInterval, streamErrorLogged, streamLines, silenced,
                 runs, exited>>

\* the callback of client.add, with the swarm's member list. Without a video
\* it calls shutdown(1) and then reads video.name of undefined: the TypeError
\* leaves the callback before the server is created and, with no handler for
\* it, ends the process with status 1.
TorrentAdded(files) ==
  /\ Alive
  /\ pc = "connecting"
  /\ destroyCalls = 0
  /\ video' = FindVideo(files)
  /\ IF FindVideo(files).found
       THEN /\ server' = "binding"
            /\ progressInterval' = TRUE
            /\ pc' = "ready"
            /\ UNCHANGED <<runs, destroyCalls, closeCalls, exited>>
       ELSE /\ ShutdownCall(1, "novideo")
            /\ pc' = "threw"
            /\ ProcessExit(1, "uncaught")
  /\ UNCHANGED <<magnet, downloaded, last, dirExists, dirEntries, mkdirCalls,
                 client, conns, launchCount, player, playerCode, browser,
                 streamErrorLogged, streamLines, silenced, destroyReported>>

\* launchPlayer(url): VLC when a binary is found, the browser otherwise
LaunchPlayer(vlc) ==
  /\ launchCount' = launchCount + 1
  /\ player' = IF vlc THEN "running" ELSE player
  /\ browser' = (browser \/ ~vlc)

\* a faulty variant of the callback below: the player is launched while the
\* socket is still unbound
LaunchedBeforeBound(vlc) ==
  /\ Alive
  /\ server = "binding"
  /\ launchCount = 0
  /\ LaunchPlayer(vlc)
  /\ UNCHANGED <<magnet, downloaded, last, pc, dirExists, dirEntries,
                 mkdirCalls, client, destroyCalls, destroyReported, video,
                 server, closeCalls, conns, playerCode, progressInterval,
                 streamErrorLogged, streamLines, silenced, runs, exited>>

\* the callback of server.listen: the socket is bound; the player is launched
Listening(vlc) ==
  /\ Alive
  /\ server = "binding"
  /\ server' = "listening"
  /\ LaunchPlayer(vlc)
  /\ UNCHANGED <<magnet, downloaded, last, pc, dirExists, dirEntries,
                 mkdirCalls, client, destroyCalls, destroyReported, video,
                 closeCalls, conns, playerCode, progressInterval,
                 streamErrorLogged, streamLines, silenced, runs, exited>>

\* the bind fails (the port is taken): the server's 'error' event has no
\* listener and ends the process
ListenFailed ==
  /\ Alive
  /\ server = "binding"
  /\ ProcessExit(1, "uncaught")
  /\ UNCHANGED <<magnet, downloaded, last, pc, dirExists, dirEntries,
                 mkdirCalls, client, destroyCalls, destroyReported, video,
                 server, closeCalls, conns, launchCount, player, playerCode,
                 browser, progressInterval, streamErrorLogged, streamLines,
                 silenced, runs>>

\* the swarm client stores downloaded data under the scratch directory
ClientWrites ==
  /\ Alive
  /\ pc = "ready"
  /\ destroyCalls = 0
  /\ "data" \notin dirEntries
  /\ dirExists' = TRUE
  /\ dirEntries' = dirEntries \cup {"data"}
  /\ UNCHANGED <<magnet, downloaded, last, pc, mkdirCalls, client,
                 destroyCalls, destroyReported, video, server, closeCalls,
                 conns, launchCount, player, playerCode, browser,
                 progressInterval, streamErrorLogged, streamLines, silenced,
                 runs, exited>>

\* a faulty variant of the handler below: the end of the download stops the
\* process
TorrentDoneShutsDown ==
  /\ Alive
  /\ pc = "ready"
  /\ destroyCalls = 0
  /\ downloaded < video.length
  /\ downloaded' = video.length
  /\ ShutdownCall(0, "sigint")
  /\ UNCHANGED <<magnet, last, pc, dirExists, dirEntries, mkdirCalls, client,
                 destroyReported, video, conns, launchCount, player,
                 playerCode, browser, streamErrorLogged, streamLines,
                 silenced, exited>>

\* t.on('done'): the swarm has every byte; the handler prints one line
TorrentDone ==
  /\ Alive
  /\ pc = "ready"
  /\ destroyCalls = 0
  /\ downloaded < video.length
  /\ downloaded' = video.length
  /\ UNCHANGED <<magnet, last, pc, dirExists, dirEntries, mkdirCalls, client,
                 destroyCalls, destroyReported, video, server, closeCalls,
                 conns, launchCount, player, playerCode, browser,
                 progressInterval, streamErrorLogged, streamLines, silenced,
                 runs, exited>>

\* the callback of setInterval(..., 5000): prints progress and speed and
\* keeps the byte count for the next tick
ProgressTick ==
  /\ Alive
  /\ progressInterval
  /\ last' = downloaded
  /\ UNCHANGED <<magnet, downloaded, pc, dirExists, dirEntries, mkdirCalls,
                 client, destroyCalls, destroyReported, video, server,
                 closeCalls, conns, launchCount, player, playerCode, browser,
                 progressInterval, streamErrorLogged, streamLines, silenced,
                 runs, exited>>

(* ------------------------------ triggers ------------------------------- *)
\* client.on('error'): shutdown(1)
ClientError ==
  /\ Alive
  /\ client = "constructed"
  /\ destroyCalls = 0
  /\ ShutdownCall(1, "swarm")
  /\ ShutdownFrame
  /\ UNCHANGED <<pc, video, player, playerCode, exited>>

\* playerProc.on('exit', code => ...): shutdown(0)
PlayerExited(code) ==
  /\ Alive
  /\ player = "running"
  /\ player' = "exited"
  /\ playerCode' = code
  /\ ShutdownCall(0, "player")
  /\ ShutdownFrame
  /\ UNCHANGED <<pc, video, exited>>

\* process.on('SIGINT'): shutdown(0)
Sigint ==
  /\ Alive
  /\ pc # "start"
  /\ ShutdownCall(0, "sigint")
  /\ ShutdownFrame
  /\ UNCHANGED <<pc, video, player, playerCode, exited>>

(* ------------------------------ HTTP ----------------------------------- *)
FreeIds == ConnIds \ {c.id : c \in conns}

\* the bytes a read stream is to deliver from a file of n bytes, as the pair
\* <<first, last>>. What the swarm library does with bounds outside the file,
\* or with NaN, is not in the source: no byte of such a read is followed.
ReadSpan(read, n) ==
  IF read.kind = "full" THEN <<0, n - 1>>
  ELSE IF /\ read.kind = "range"
          /\ ~read.start.nan /\ ~read.end.nan
          /\ 0 <= read.start.v /\ read.start.v <= read.end.v /\ read.end.v < n
    THEN <<read.start.v, read.end.v>>
  ELSE <<0, -1>>

\* the bytes the read stream of exchange c has still to deliver
Remaining(c) == ReadSpan(c.res.read, video.length)[2] + 1 - c.pos

\* content of the file: the byte at offset i is written i
FileBytes(from, to) == [k \in 1..(to - from + 1) |-> from + k - 1]

\* stream.pipe(res): the stream of exchange c hands its next k bytes to the
\* response and moves its own cursor past them
Deliver(c, k) ==
  [c EXCEPT !.body = @ \o FileBytes(c.pos, c.pos + k - 1), !.pos = @ + k]

\* the exchange the handler opens for request req under identifier id; a
\* 200 or 206 leaves a read stream piped into the response
Exchange(id, req) ==
  LET res == Respond(req, video.length)
  IN  [id |-> id, req |-> req, res |-> res,
       phase |-> IF res.read.kind = "none" THEN "ended" ELSE "streaming",
       pos |-> ReadSpan(res.read, video.length)[1],
       body |-> <<>>]

\* a request arrives on the listening socket while fewer than the followed
\* number of exchanges are open, and the handler answers it
Accept(ids, req) ==
  /\ Alive
  /\ server = "listening"
  /\ ids \ {c.id : c \in conns} # {}
  /\ LET free == ids \ {c.id : c \in conns}
         id   == CHOOSE i \in free : \A j \in free : i <= j
     IN  conns' = conns \cup {Exchange(id, req)}
  /\ UNCHANGED <<magnet, downloaded, last, pc, dirExists, dirEntries,
                 mkdirCalls, client, destroyCalls, destroyReported, video,
                 server, closeCalls, launchCount, player, playerCode, browser,
                 progressInterval, streamErrorLogged, streamLines, silenced,
                 runs, exited>>

\* a request arrives on the listening socket and the handler answers it; a
\* 200 or 206 leaves a read stream piped into the response
RequestArrives(req) ==
  /\ Alive
  /\ server = "listening"
  /\ FreeIds # {}
  /\ LET id == CHOOSE i \in FreeIds : \A j \in FreeIds : i <= j
     IN  conns' = conns \cup {Exchange(id, req)}
  /\ UNCHANGED <<magnet, downloaded, last, pc, dirExists, dirEntries,
                 mkdirCalls, client, destroyCalls, destroyReported, video,
                 server, closeCalls, launchCount, player, playerCode, browser,
                 progressInterval, streamErrorLogged, streamLines, silenced,
                 runs, exited>>

\* a faulty variant of the step below: the streams share one cursor, so a
\* byte handed to one response is skipped by every other open stream
StreamDataSharedCursor(c) ==
  /\ Alive
  /\ c \in conns
  /\ c.phase = "streaming"
  /\ Remaining(c) > 0
  /\ conns' = {IF d = c THEN Deliver(c, 1)
               ELSE IF d.phase = "streaming" /\ Remaining(d) > 0
                 THEN [d EXCEPT !.pos = @ + 1]
               ELSE d : d \in conns}
  /\ UNCHANGED <<magnet, downloaded, last, pc, dirExists, dirEntries,
                 mkdirCalls, client, destroyCalls, destroyReported, video,
                 server, closeCalls, launchCount, player, playerCode, browser,
                 progressInterval, streamErrorLogged, streamLines, silenced,
                 runs, exited>>

\* the swarm delivers the next byte of the read of exchange c
StreamData(c) ==
  /\ Alive
  /\ c \in conns
  /\ c.phase = "streaming"
  /\ Remaining(c) > 0
  /\ conns' = (conns \ {c}) \cup {Deliver(c, 1)}
  /\ UNCHANGED <<magnet, downloaded, last, pc, dirExists, dirEntries,
                 mkdirCalls, client, destroyCalls, destroyReported, video,
                 server, closeCalls, launchCount, player, playerCode, browser,
                 progressInterval, streamErrorLogged, streamLines, silenced,
                 runs, exited>>

\* the swarm delivers what is left of the read and the response ends
StreamEnds(c) ==
  /\ Alive
  /\ c \in conns
  /\ c.phase = "streaming"
  /\ conns' = (conns \ {c})
                 \cup {[Deliver(c, Remaining(c)) EXCEPT !.phase = "ended"]}
  /\ UNCHANGED <<magnet, downloaded, last, pc, dirExists, dirEntries,
                 mkdirCalls, client, destroyCalls, destroyReported, video,
                 server, closeCalls, launchCount, player, playerCode, browser,
                 progressInterval, streamErrorLogged, streamLines, silenced,
                 runs, exited>>

\* the kind of a stream error: its message says "prematurely" (the reader
\* went away) or it does not (the read itself failed)
ErrorKind(premature) == IF premature THEN "premature" ELSE "other"

\* if (!streamErrorLogged && e.message.includes('prematurely'))
Prints(premature) == ~streamErrorLogged /\ premature

\* a faulty variant of the flag update below: the flag is never set
LogStreamErrorForgets(premature) == streamErrorLogged

\* function logStreamError(e): the flag after the call
LogStreamError(premature) ==
  streamErrorLogged \/ (~streamErrorLogged /\ premature)

\* a faulty variant of the handler below: the error is taken for fatal and
\* starts shutdown(1)
StreamFailsShutsDown(c, premature) ==
  /\ Alive
  /\ c \in conns
  /\ c.phase = "streaming"
  /\ conns' = conns \ {c}
  /\ ShutdownCall(1, "swarm")
  /\ UNCHANGED <<magnet, downloaded, last, pc, dirExists, dirEntries,
                 mkdirCalls, client, destroyReported, video, launchCount,
                 player, playerCode, browser, streamErrorLogged, streamLines,
                 silenced, exited>>

\* stream.on('error', e => logStreamError(e)): the client went away in the
\* middle of the read (the message says "prematurely") or the read failed
StreamFails(c, premature) ==
  /\ Alive
  /\ c \in conns
  /\ c.phase = "streaming"
  /\ streamErrorLogged' = LogStreamError(premature)
  /\ streamLines' = IF Prints(premature)
                      THEN [streamLines EXCEPT ![ErrorKind(premature)] = @ + 1]
                      ELSE streamLines
  /\ silenced' = IF Prints(premature)
                   THEN silenced
                   ELSE silenced \cup {ErrorKind(premature)}
  /\ conns' = conns \ {c}
  /\ UNCHANGED <<magnet, downloaded, last, pc, dirExists, dirEntries,
                 mkdirCalls, client, destroyCalls, destroyReported, video,
                 server, closeCalls, launchCount, player, playerCode, browser,
                 progressInterval, runs, exited>>

\* a connection whose response has ended is closed (by the client, or by the
\* server's keep-alive timeout)
ConnectionCloses(c) ==
  /\ Alive
  /\ c \in conns
  /\ c.phase = "ended"
  /\ conns' = conns \ {c}
  /\ UNCHANGED <<magnet, downloaded, last, pc, dirExists, dirEntries,
                 mkdirCalls, client, destroyCalls, destroyReported, video,
                 server, closeCalls, launchCount, player, playerCode, browser,
                 progressInterval, streamErrorLogged, streamLines, silenced,
                 runs, exited>>

(* --------------------------- specification ----------------------------- *)
Next ==
  \/ Validate
  \/ \E ok \in BOOLEAN : MkdirDone(ok)
  \/ \E files \in Torrents : TorrentAdded(files)
  \/ \E vlc \in BOOLEAN : Listening(vlc)
  \/ ListenFailed
  \/ ClientWrites
  \/ TorrentDone
  \/ ProgressTick
  \/ ClientError
  \/ \E code \in ExitCodes : PlayerExited(code)
  \/ Sigint
  \/ \E req \in SampleRequests : RequestArrives(req)
  \/ \E c \in conns : StreamEnds(c)
  \/ \E c \in conns, premature \in SampleErrors : StreamFails(c, premature)
  \/ \E c \in conns : ConnectionCloses(c)
  \/ ServerClosed
  \/ \E i \in 1..Len(runs) : GraceOver(i)
  \/ \E i \in 1..Len(runs) : ReaddirDone(i)
  \/ \E i \in 1..Len(runs), e \in Entries, ok \in BOOLEAN : RmDone(i, e, ok)
  \/ \E ok \in BOOLEAN : DestroyReported(ok)

Spec == Init /\ [][Next]_vars

\* The process while nothing asks it to stop (no swarm error, no player exit,
\* no SIGINT), serving every modelled request for every modelled swarm.
ServerNext ==
  \/ Validate
  \/ \E ok \in BOOLEAN : MkdirDone(ok)
  \/ \E files \in Torrents \cup MoreTorrents : TorrentAdded(files)
  \/ \E vlc \in BOOLEAN : Listening(vlc)
  \/ \E req \in Requests : RequestArrives(req)
  \/ \E c \in conns : StreamEnds(c)
  \/ \E c \in conns, premature \in SampleErrors : StreamFails(c, premature)
  \/ \E c \in conns : ConnectionCloses(c)

ServerSpec == Init /\ [][ServerNext]_vars

\* The process while nothing asks it to stop, serving whole-file reads that
\* end, are abandoned by the reader, or fail.
StreamNext ==
  \/ Validate
  \/ \E ok \in BOOLEAN : MkdirDone(ok)
  \/ \E files \in Torrents : TorrentAdded(files)
  \/ \E vlc \in BOOLEAN : Listening(vlc)
  \/ \E req \in SampleRequests : RequestArrives(req)
  \/ \E c \in conns : StreamEnds(c)
  \/ \E c \in conns, premature \in BOOLEAN : StreamFails(c, premature)
  \/ \E c \in conns : ConnectionCloses(c)

StreamSpec == Init /\ [][StreamNext]_vars

\* a swarm whose video file is short enough to follow every byte of it
CursorTorrents == { <<File(<<"b", ".", "a", "v", "i">>, ReadLen)>> }

\* the requests of several players reading that file at a time: the whole
\* file, its first two bytes, and from the second byte on
CursorRequests ==
  { Request("GET", NoHeader),
    Request("GET", Header(ClosedRange(0, 1))),
    Request("GET", Header(OpenRange(1))) }

ReaderIds == 1..MaxReaders

\* The process while nothing asks it to stop, with several exchanges open at
\* once and their bytes delivered one at a time in any interleaving.
CursorNext ==
  \/ Validate
  \/ \E ok \in BOOLEAN : MkdirDone(ok)
  \/ \E files \in CursorTorrents : TorrentAdded(files)
  \/ \E vlc \in BOOLEAN : Listening(vlc)
  \/ \E req \in CursorRequests : Accept(ReaderIds, req)
  \/ \E c \in conns : StreamData(c)
  \/ \E c \in conns : StreamEnds(c)
  \/ \E c \in conns, premature \in SampleErrors : StreamFails(c, premature)
  \/ \E c \in conns : ConnectionCloses(c)

CursorSpec == Init /\ [][CursorNext]_vars

\* The event loop runs every callback that is due: timers, file-system
\* completions, the server's 'close' event once its connections are gone,
\* and the keep-alive timeout of an ended exchange. Nothing obliges the swarm
\* to deliver bytes or a client to hang up.
FairSpec ==
  /\ Spec
  /\ WF_vars(ServerClosed)
  /\ WF_vars(\E i \in 1..Len(runs) : GraceOver(i))
  /\ WF_vars(\E i \in 1..Len(runs) : ReaddirDone(i))
  /\ WF_vars(\E i \in 1..Len(runs), e \in Entries, ok \in BOOLEAN : RmDone(i, e, ok))
  /\ WF_vars(\E c \in conns : ConnectionCloses(c))
  /\ WF_vars(\E ok \in BOOLEAN : DestroyReported(ok))

(* ------------------------------- claims -------------------------------- *)
\* C1: whatever triggers fire, shutdown is entered at most once, and the
\* listening socket is closed and the swarm client destroyed at most once.
C1_ShutdownEnteredOnce ==
  /\ Len(runs) <= 1
  /\ closeCalls <= 1
  /\ destroyCalls <= 1

\* C2: when only the player's exit has triggered shutdown, the process ends
\* with the code the player exited with.
C2_ExitStatusIsPlayerCode ==
  (exited.done /\ exited.via = "shutdown" /\ Len(runs) = 1
     /\ runs[1].trigger = "player")
    => exited.status = playerCode

\* what a 206 for the bytes s..e of a file of n bytes must say
ExpectedContentRange(s, e, n) ==
  <<"b", "y", "t", "e", "s", " ">> \o DigitsOf(s) \o <<"-">> \o DigitsOf(e)
    \o <<"/">> \o DigitsOf(n)

\* C3: a GET with Range bytes=s-e, 0 <= s <= e < length (or bytes=s- with e
\* the last byte), is answered 206 with Content-Range "bytes s-e/length",
\* Content-Length e-s+1, and a read of exactly s..e.
C3_ValidRangeAnswered206 ==
  \A c \in conns : \A s \in 0..MaxLen, e \in 0..MaxLen :
    ( /\ c.req.method = "GET"
      /\ c.req.range.present
      /\ s <= e /\ e < video.length
      /\ \/ c.req.range.value = ClosedRange(s, e)
         \/ c.req.range.value = OpenRange(s) /\ e = video.length - 1 )
    => /\ c.res.status = 206
       /\ c.res.contentRange = ExpectedContentRange(s, e, video.length)
       /\ c.res.hasLength /\ c.res.contentLength = Num(e - s + 1)
       /\ c.res.read = RangeRead(Num(s), Num(e))

C3_Witness ==
  \E c \in conns :
    /\ video.length = MaxLen
    /\ c.req = Request("GET", Header(ClosedRange(1, MaxLen - 1)))
    /\ c.res.status = 206
    /\ c.phase = "streaming"

\* C4: a GET without a Range header is answered 200 with Content-Length the
\* file's length and Accept-Ranges: bytes, its body a read of the whole file.
C4_NoRangeAnswered200 ==
  \A c \in conns :
    (c.req.method = "GET" /\ ~c.req.range.present)
    => /\ c.res.status = 200
       /\ c.res.hasLength /\ c.res.contentLength = Num(video.length)
       /\ c.res.acceptRanges
       /\ c.res.read = FullRead

C4_Witness ==
  \E c \in conns :
    /\ c.req = Request("GET", NoHeader)
    /\ video.length = MaxLen
    /\ c.phase = "streaming"

\* C5: a request whose method is not GET is answered 405 with no body and no
\* read of the swarm file, with or without a Range header.
C5_OtherMethodsAnswered405 ==
  \A c \in conns :
    c.req.method # "GET"
    => /\ c.res.status = 405
       /\ c.res.read = NoRead
       /\ ~c.res.hasLength
       /\ c.phase = "ended"

C5_Witness ==
  \E c \in conns :
    /\ c.req = Request("HEAD", Header(ClosedRange(0, 1)))
    /\ c.res.status = 405

\* C6: a descriptor without the prefix magnet:? ends the process with status
\* 1 before anything is built: no mkdir, no swarm client, no server.
C6_InvalidDescriptorExitsFirst ==
  ~StartsWith(magnet, MagnetPrefix)
    => /\ mkdirCalls = 0
       /\ client = "undefined"
       /\ server = "undefined"
       /\ pc = "start"
       /\ exited.done => (exited.status = 1 /\ exited.via = "invalid")

C6_Witness ==
  /\ magnet = <<"m", "a", "g", "n", "e", "t", ":">>
  /\ exited.done
  /\ exited.status = 1

\* C7: once shutdown has completed, the scratch directory is absent.
C7_ScratchAbsentAfterShutdown ==
  (exited.done /\ exited.via = "shutdown") => ~dirExists

\* C8: once a shutdown trigger has fired, the process eventually terminates.
C8_ShutdownTerminates == (Len(runs) > 0) ~> exited.done

\* C9: the player is launched at most once, and only once the Target File is
\* identified and the listening socket has been bound.
C9_PlayerAfterListening ==
  /\ launchCount <= 1
  /\ launchCount > 0
       => (video.found /\ server \in {"listening", "closing", "closed"})

C9_Witness ==
  /\ launchCount = 1
  /\ player = "running"
  /\ server = "listening"

\* C10: when the joined swarm has no member with a video extension, the
\* process exits non-zero, no server is created, no player is launched, and
\* client.destroy has been called before the exit.
C10_NoVideoIsFatal ==
  (pc \notin {"start", "mkdir", "connecting"} /\ ~video.found)
    => /\ exited.done /\ exited.status # 0
       /\ server = "undefined"
       /\ launchCount = 0 /\ player = "undefined" /\ ~browser
       /\ destroyCalls >= 1

C10_Witness ==
  /\ pc = "threw"
  /\ exited.done
  /\ destroyCalls = 1

\* the moves of one shutdown run from one await to the next
RunMoves ==
  { <<"close", "grace">>, <<"close", "readdir">>, <<"grace", "readdir">>,
    <<"readdir", "rm">> }

\* the runs that enter the grace period in this step
EntersGrace(i) ==
  /\ runs'[i].pc = "grace"
  /\ i > Len(runs) \/ runs[i].pc = "close"

\* C11: within one shutdown run the steps come in the order (a) timers
\* cancelled, (b) server.close requested and awaited, (c) client.destroy and
\* the grace period, (d) directory entries deleted, (e) process.exit; no step
\* starts before the one before it is over.
C11_StepsInOrder ==
  [][ /\ Len(runs') >= Len(runs)
      /\ \A i \in 1..Len(runs) :
           \/ runs'[i].pc = runs[i].pc
           \/ /\ <<runs[i].pc, runs'[i].pc>> \in RunMoves
              /\ (runs'[i].pc = "readdir" /\ runs[i].pc = "close")
                   => client = "undefined"
      /\ Len(runs') > Len(runs)
           => /\ progressInterval' = FALSE
              /\ runs'[Len(runs')].pc \in {"close", "grace", "readdir"}
              /\ server # "undefined" => closeCalls' = closeCalls + 1
      /\ closeCalls' # closeCalls => Len(runs') = Len(runs) + 1
      /\ destroyCalls' - destroyCalls
           = Cardinality({i \in 1..Len(runs') : EntersGrace(i)})
      /\ dirEntries' # dirEntries /\ ~(dirEntries \subseteq dirEntries')
           => \E i \in 1..Len(runs) : runs[i].pc = "rm"
      /\ (exited'.done /\ ~exited.done /\ exited'.via = "shutdown")
           => \E i \in 1..Len(runs) :
                /\ runs[i].pc \in {"readdir", "rm"}
                /\ exited'.status = runs[i].code
    ]_vars

C11_Witness ==
  /\ exited.done /\ exited.via = "shutdown"
  /\ Len(runs) = 1
  /\ runs[1].pc = "rm"
  /\ closeCalls = 1 /\ destroyCalls = 1
  /\ ~progressInterval

\* server.close on a server that is not listening hands its callback an error
CloseFails == server \in {"binding", "closing", "closed"}

C13_ExitStatusOfFirstTrigger ==
  (exited.done /\ exited.via = "shutdown" /\ Len(runs) >= 1)
    => exited.status = runs[1].code

\* the bounds the claim asks of a read of a file of n bytes
BoundsWithinFile(read, n) ==
  /\ ~read.start.nan /\ ~read.end.nan
  /\ 0 <= read.start.v
  /\ read.start.v <= read.end.v
  /\ read.end.v < n

\* C14: every ranged read and every 206 has 0 <= start <= end < length,
\* whatever the Range header says.
C14_ReadsWithinFile ==
  \A c \in conns :
    (c.res.status = 206 \/ c.res.read.kind = "range")
      => BoundsWithinFile(c.res.read, video.length)

\* a read stream emits 'error': its exchange is gone in the next state
StreamErrorStep ==
  \E c \in conns :
    /\ c.phase = "streaming"
    /\ \A d \in conns' : d.id # c.id

\* C15: an error of a read stream starts no shutdown, does not end the
\* process and does not close the listening socket; GET requests go on being
\* answered 200 or 206.
C15_StreamErrorNotFatal ==
  /\ [][ StreamErrorStep
           => /\ runs' = runs
              /\ exited' = exited
              /\ server' = server /\ closeCalls' = closeCalls
              /\ client' = client /\ destroyCalls' = destroyCalls
       ]_vars
  /\ [](\A c \in conns :
          c.req.method = "GET" => c.res.status \in {200, 206})

C15_Witness ==
  /\ silenced = {"premature", "other"}
  /\ server = "listening" /\ Alive /\ runs = <<>>
  /\ \E c \in conns :
       /\ c.req.method = "GET"
       /\ c.res.status = 200
       /\ c.phase = "ended"

\* C16: over the whole life of the process logStreamError prints at most one
\* line for reads abandoned by the reader; every later one passes unprinted.
C16_HiccupLoggedOnce == streamLines["premature"] <= 1

C16_Witness ==
  /\ streamLines["premature"] = 1
  /\ "premature" \in silenced

\* C17: a read that fails for another reason than the reader going away is
\* logged at least once.
C17_IoFailureLogged ==
  "other" \in silenced => streamLines["other"] >= 1

\* a shutdown run starts, and the state shows which of the four triggers
\* started it
TriggerStep ==
  /\ Len(runs') = Len(runs) + 1
  /\ LET r == runs'[Len(runs')]
     IN  \/ r.trigger = "sigint"
         \/ r.trigger = "swarm" /\ client = "constructed"
         \/ r.trigger = "player" /\ player = "running" /\ player' = "exited"
         \/ r.trigger = "novideo" /\ pc = "connecting" /\ ~video'.found

\* the download completes, the progress timer ticks, a request arrives, a
\* read stream fails, or the browser is opened in place of a player
OtherEventStep ==
  \/ downloaded' # downloaded
  \/ last' # last
  \/ \E d \in conns' : \A c \in conns : c.id # d.id
  \/ StreamErrorStep
  \/ browser' # browser

\* C18: a shutdown run starts only on a swarm client error, a torrent without
\* a video file, the player's exit, or SIGINT; the end of the download, a
\* progress tick, a request, a stream error and the browser launch leave the
\* runs, the listening socket and the swarm client as they are.
C18_OnlyTriggersShutDown ==
  [][ /\ runs' # runs /\ runs = <<>> => TriggerStep
      /\ OtherEventStep
           => /\ runs' = runs
              /\ exited' = exited
              /\ client' = client /\ destroyCalls' = destroyCalls
              /\ closeCalls' = closeCalls
              /\ \/ server' = server
                 \/ server = "binding" /\ server' = "listening"
    ]_vars

C18_Witness ==
  /\ Alive /\ runs = <<>>
  /\ server = "listening" /\ client = "constructed"
  /\ downloaded = video.length /\ last = video.length /\ video.length > 0
  /\ browser
  /\ "premature" \in silenced
  /\ conns # {}

\* the exchanges whose record differs between this state and the next
Touched ==
  {c.id : c \in conns \ conns'} \cup {d.id : d \in conns' \ conns}

\* C19: with several requests in flight each response is fed by its own
\* stream: its body is the bytes of its own range, in order, up to its own
\* cursor; a step of one exchange leaves every other exchange's bounds,
\* cursor, headers and body as they are.
C19_StreamsIndependent ==
  /\ [](\A c \in conns :
          LET span == ReadSpan(c.res.read, video.length)
          IN  /\ c.body = FileBytes(span[1], c.pos - 1)
              /\ c.pos <= span[2] + 1
              /\ (c.phase = "ended" /\ c.res.status \in {200, 206})
                   => c.pos = span[2] + 1)
  /\ [][ /\ Cardinality(Touched) <= 1
         /\ \A c \in conns, d \in conns' :
              d.id = c.id
                => /\ d.req = c.req /\ d.res = c.res
                   /\ d.pos >= c.pos
       ]_vars

C19_Witness ==
  \E c \in conns, d \in conns :
    /\ c.id # d.id
    /\ c.phase = "streaming" /\ d.phase = "streaming"
    /\ c.res.read # d.res.read
    /\ c.body # <<>> /\ d.body # <<>>
    /\ c.pos # d.pos
    /\ Remaining(c) > 0 /\ Remaining(d) > 0

====
